---- MODULE Spec2Model ----
(***************************************************************************)
(* Model of the eBay end-to-end page objects: the paginated, price-filtered *)
(* item collector of SearchPage (searchItemsByNameUnderPrice ->             *)
(* collectItemsWithPaging -> extractItemsFromCurrentPage) together with     *)
(* PriceParser.parse (specification Spec), and the rest of a test run:      *)
(* LoginPage.login, ProductPage.addItemsToCart with its variant selection,  *)
(* and CartPage.assertCartTotalNotExceeds (specification FlowSpec).  The    *)
(* browser (Playwright page, DOM, network) is the environment: every call   *)
(* into it may return any of its outcomes.                                  *)
(***************************************************************************)
EXTENDS Integers, Sequences, FiniteSets, TLC

(* ------------------------------ bounds --------------------------------- *)
\* longest price text shown on an item card
MaxTextLen == 2
\* most item cards on one result page
MaxCards == 2
\* largest limit a caller asks for
MaxLimit == 2
\* largest configured value of config.pagination.maxPages
MaxPagesCfg == 2
\* most product URLs handed to addItemsToCart
MaxUrls == 3
\* most items the cart holds before the run
MaxPreExisting == 2
\* most options a variant dropdown offers besides its placeholder
MaxOptions == 2
\* most msku selects on one product page
MaxSelects == 2
\* largest cart total, in whole currency units
MaxTotal == 4
\* most item price rows the cart page lists
MaxRows == 2

(* --------------------------- price parsing ----------------------------- *)
\* characters of a price text: a currency sign, two digits, the dot
PriceChars == {"$", "5", "0", "."}
Digits == {"5", "0"}

DigitVal(c) == IF c = "5" THEN 5 ELSE 0

RECURSIVE Pow10(_)
Pow10(n) == IF n <= 0 THEN 1 ELSE 10 * Pow10(n - 1)

\* prices are kept as integers in units of 10^-MaxTextLen
PriceScale == Pow10(MaxTextLen)

\* parseFloat's NaN (no parsed price is negative: '-' never survives cleaning)
NaN == -1

RECURSIVE TextsUpTo(_)
TextsUpTo(n) ==
  IF n = 0 THEN {<<>>}
  ELSE LET shorter == TextsUpTo(n - 1)
       IN  shorter \cup {Append(t, c) : t \in {s \in shorter : Len(s) = n - 1}, c \in PriceChars}

PriceTexts == TextsUpTo(MaxTextLen)

\* priceText.replace(/[^0-9.]/g, '')
IsNumericChar(c) == c \in Digits \cup {"."}
CleanPrice(text) == SelectSeq(text, IsNumericChar)

\* the longest prefix of s made of digits
RECURSIVE DigitPrefix(_)
DigitPrefix(s) ==
  IF s = <<>> \/ Head(s) \notin Digits THEN <<>>
  ELSE <<Head(s)>> \o DigitPrefix(Tail(s))

RECURSIVE DigitsValue(_)
DigitsValue(s) ==
  IF s = <<>> THEN 0
  ELSE 10 * DigitsValue(SubSeq(s, 1, Len(s) - 1)) + DigitVal(s[Len(s)])

\* parseFloat on a string of digits and dots: the longest prefix of the form
\* digits [ "." digits ], NaN when that prefix holds no digit
ParseFloat(s) ==
  LET intPart == DigitPrefix(s)
      rest    == SubSeq(s, Len(intPart) + 1, Len(s))
      fracPart == IF rest # <<>> /\ Head(rest) = "." THEN DigitPrefix(Tail(rest)) ELSE <<>>
  IN  IF intPart = <<>> /\ fracPart = <<>> THEN NaN
      ELSE DigitsValue(intPart) * PriceScale
           + DigitsValue(fracPart) * Pow10(MaxTextLen - Len(fracPart))

\* PriceParser.parse on a text that is present (null is handled by the caller's
\* falsy test; the empty string is falsy here too)
Parse(text) ==
  IF text = <<>> THEN 0
  ELSE LET price == ParseFloat(CleanPrice(text))
       IN  IF price = NaN THEN 0 ELSE price

(* ------------------------------ item cards ----------------------------- *)
\* what reading the price element of a card gives: textContent() raises,
\* returns null, or returns a text
\* what reading the link of a card gives: getAttribute('href') raises,
\* returns null, returns '', or returns a URL
LinkKinds == {"throws", "null", "empty", "href"}

Cards ==
  [priceKind : {"throws", "null"}, priceText : {<<>>}, linkKind : LinkKinds]
  \cup [priceKind : {"text"}, priceText : PriceTexts, linkKind : LinkKinds]

NoCard == [priceKind |-> "none", priceText |-> <<>>, linkKind |-> "none"]

\* the URL listed at position idx of result page p
UrlOf(p, idx) == <<p, idx>>

(* ------------------------------- inputs -------------------------------- *)
Limits == -1 .. MaxLimit
MaxPrices == {0, 5, 50}
PageCeilings == 0 .. MaxPagesCfg

VARIABLES
  limit,          \* argument limit of searchItemsByNameUnderPrice
  maxPrice,       \* argument maxPrice, in whole currency units
  maxPages,       \* config.pagination.maxPages
  pc,             \* position in searchItemsByNameUnderPrice / collectItemsWithPaging
  raisedIn,       \* the call whose exception reached the caller, or "none"
  filterOutcome,  \* how the applyPriceFilter call that just returned went
  collectedUrls,  \* accumulator of collectItemsWithPaging
  currentPage,    \* page counter of collectItemsWithPaging
  pageItems,      \* what extractItemsFromCurrentPage returned for this page
  pushIdx,        \* position of the for-of loop over pageItems
  hasNext,        \* local hasNext of collectItemsWithPaging
  items,          \* items of the running extractItemsFromCurrentPage
  cardCount,      \* number of item cards locator.all() returned
  cardIdx,        \* cards of this page handled so far
  card,           \* the card the for loop of the extractor is at
  verdict,        \* the branch the loop body took for the card handled last
  browserPage,    \* result page the browser really shows
  result,         \* value returned to the caller
  fetchCount,     \* calls of extractItemsFromCurrentPage so far
  hasNextCalls,   \* calls of hasNextPage so far
  navCalls,       \* calls of goToNextPage so far
  allAccepted,    \* identifiers of the qualifying candidates seen, in fetch order
  acceptedBefore, \* length of allAccepted when the running page fetch began
  advanceFailed,  \* hasNextPage raised inside, or goToNextPage did not navigate
  username,       \* argument username of login
  password,       \* argument password of login
  browserAt,      \* what the browser shows: "blank", "home", "item" or "cart"
  urlCount,       \* urls.length of addItemsToCart; the urls are 1 .. urlCount
  itemIdx,        \* loop counter i of addItemsToCart
  successCount,   \* successCount of addItemsToCart
  failureCount,   \* failureCount of addItemsToCart
  itemError,      \* the error the catch of the running iteration holds
  attempted,      \* the urls goto was called with, in call order
  cartBefore,     \* items the cart held before the run
  cartItems,      \* items the cart really holds
  dropdown,       \* the dropdown the variant selector that ran last looked at
  selection,      \* the option that selector chose, "none" when it chose none
  selectsSeen,    \* msku selects the loop of selectOtherDropdowns handled
  budgetPerItem,  \* argument budgetPerItem of assertCartTotalNotExceeds
  itemsCount,     \* argument itemsCount of assertCartTotalNotExceeds
  totalAmount,    \* what getTotalAmount returned, in whole currency units
  cartItemsCount, \* what getItemsCount returned
  shots,          \* the screenshots requested for the url of the running iteration
  selIdx,         \* total selectors the running getTotalAmount has consulted
  selectorRead,   \* what the selector consulted last gave
  itemPrices,     \* the prices calculateTotalFromItems parsed
  totalSource     \* where totalAmount came from: "selector", "items" or "error"

vars == <<limit, maxPrice, maxPages, pc, raisedIn, filterOutcome, collectedUrls,
          currentPage, pageItems, pushIdx, hasNext, items, cardCount, cardIdx,
          card, verdict, browserPage, result, fetchCount, hasNextCalls, navCalls,
          allAccepted, acceptedBefore, advanceFailed,
          username, password, browserAt, urlCount, itemIdx, successCount,
          failureCount, itemError, attempted, cartBefore, cartItems, dropdown,
          selection, selectsSeen, budgetPerItem, itemsCount, totalAmount,
          cartItemsCount, shots, selIdx, selectorRead, itemPrices, totalSource>>

inputVars == <<limit, maxPrice, maxPages>>
extractVars == <<items, cardCount, cardIdx, card, verdict>>
callCounts == <<fetchCount, hasNextCalls, navCalls>>
\* the state of the collector besides pc and raisedIn
collectorVars == <<inputVars, filterOutcome, collectedUrls, currentPage,
                   pageItems, pushIdx, hasNext, extractVars, browserPage,
                   result, callCounts, allAccepted, acceptedBefore,
                   advanceFailed>>
loginVars == <<username, password>>
loopVars == <<itemIdx, successCount, failureCount, itemError, attempted, shots>>
variantVars == <<dropdown, selection, selectsSeen>>
totalVars == <<selIdx, selectorRead, itemPrices, totalSource>>
cartVars == <<budgetPerItem, itemsCount, totalAmount, cartItemsCount, totalVars>>
\* the state of the login, add-to-cart and cart assertion steps
flowVars == <<loginVars, browserAt, urlCount, loopVars, cartBefore, cartItems,
              variantVars, cartVars>>

(* --------------------------- code conditions --------------------------- *)
Min(a, b) == IF a < b THEN a ELSE b
Max(a, b) == IF a > b THEN a ELSE b

\* Array.prototype.slice(0, end)
Slice(s, end) ==
  LET stop == IF end < 0 THEN Max(Len(s) + end, 0) ELSE Min(end, Len(s))
  IN  SubSeq(s, 1, stop)

\* faulty variants of the while condition: a ceiling one page too high, a
\* target test that admits equality, a loop that goes on only after a find
LoopGuardOffByOne(collected, page, lim, ceiling) ==
  Len(collected) < lim /\ page <= ceiling + 1
LoopGuardInclusive(collected, page, lim, ceiling) ==
  Len(collected) <= lim /\ page <= ceiling
LoopGuardNeedsItems(collected, page, lim, ceiling) ==
  Len(collected) < lim /\ page <= ceiling /\ (page = 1 \/ collected # <<>>)
\* while (collectedUrls.length < limit && currentPage <= config.pagination.maxPages)
LoopGuard(collected, page, lim, ceiling) ==
  Len(collected) < lim /\ page <= ceiling

\* faulty variant: the break inside the for-of loop comes one push late
PushBreakOffByOne(collected, lim) == Len(collected) > lim
\* if (collectedUrls.length >= limit) break;   inside the for-of loop
PushBreak(collected, lim) == Len(collected) >= lim

\* faulty variant: the break after the for-of loop is missing
TargetReachedNever(collected, lim) == FALSE
\* faulty variant: the target counts as reached one item early
TargetReachedOneShort(collected, lim) == Len(collected) >= lim - 1
\* if (collectedUrls.length >= limit) break;   after the for-of loop
TargetReached(collected, lim) == Len(collected) >= lim

\* faulty variant: a price of 0 passes the price test
PriceInBudgetZeroOk(price, ceiling) == price >= 0 /\ price <= ceiling * PriceScale
\* if (price > 0 && price <= maxPrice)
PriceInBudget(price, ceiling) == price > 0 /\ price <= ceiling * PriceScale

\* the browser reads of extractItemsFromCurrentPage: the load wait and the
\* card listing before the loop, the price text and the link of one card
PageReads == {"waitForTimeout", "all"}
CardReads == {"textContent", "getAttribute"}

\* faulty variant: the link is read after the try block
InsideTryPriceOnly(read) == read = "textContent"
\* the reads the try block of the for loop encloses (its catch skips the card)
InsideTry(read) == read \in CardReads

\* the read of card c that raises, "none" when none does; the link is read
\* only for a price in budget
FailingRead(c, ceiling) ==
  IF c.priceKind = "throws" THEN "textContent"
  ELSE IF /\ c.priceKind = "text"
          /\ c.priceText # <<>>
          /\ PriceInBudget(Parse(c.priceText), ceiling)
          /\ c.linkKind = "throws" THEN "getAttribute"
  ELSE "none"

\* the branch the body of the for loop takes for card c: the catch, the
\* continue on a missing text, the price test failing, the url test failing,
\* or the push
CardVerdict(c, ceiling) ==
  IF FailingRead(c, ceiling) # "none" THEN "caught"
  ELSE IF c.priceKind # "text" \/ c.priceText = <<>> THEN "noText"
  ELSE IF ~PriceInBudget(Parse(c.priceText), ceiling) THEN "outOfBudget"
  ELSE IF c.linkKind = "href" THEN "appended"
  ELSE "noUrl"

\* what the body of the for loop appends for the card at position idx of page p
CardItems(c, p, idx, ceiling) ==
  IF CardVerdict(c, ceiling) = "appended" THEN <<UrlOf(p, idx)>> ELSE <<>>

\* faulty variant: unshift in place of push
PushFront(collected, item) == <<item>> \o collected
\* collectedUrls.push(item)
Push(collected, item) == Append(collected, item)

\* hasNextPage: isVisible && isDisabled !== 'true', false when a call raises
NextPageStates == {"throws", "hidden", "disabled", "available"}
HasNextPage(state) == state = "available"

(* -------------------------------- Init --------------------------------- *)
\* no total selector consulted
NoRead == [kind |-> "none", value |-> 0]

\* no dropdown looked at
NoDropdown == [state |-> "none", options |-> <<>>]

\* the locals of a collection that has not started
CollectorFresh ==
  /\ raisedIn = "none"
  /\ filterOutcome = "none"
  /\ collectedUrls = <<>>
  /\ currentPage = 1
  /\ pageItems = <<>>
  /\ pushIdx = 1
  /\ hasNext = FALSE
  /\ items = <<>>
  /\ cardCount = 0
  /\ cardIdx = 0
  /\ card = NoCard
  /\ verdict = "none"
  /\ browserPage = 1
  /\ result = <<>>
  /\ fetchCount = 0
  /\ hasNextCalls = 0
  /\ navCalls = 0
  /\ allAccepted = <<>>
  /\ acceptedBefore = 0
  /\ advanceFailed = FALSE

\* the locals of addItemsToCart and assertCartTotalNotExceeds before their calls
FlowFresh ==
  /\ browserAt = "blank"
  /\ itemIdx = 0
  /\ successCount = 0
  /\ failureCount = 0
  /\ itemError = "none"
  /\ attempted = <<>>
  /\ dropdown = NoDropdown
  /\ selection = "none"
  /\ selectsSeen = 0
  /\ budgetPerItem = 0
  /\ itemsCount = 0
  /\ totalAmount = 0
  /\ cartItemsCount = 0
  /\ shots = <<>>
  /\ selIdx = 0
  /\ selectorRead = NoRead
  /\ itemPrices = <<>>
  /\ totalSource = "none"

\* a call of searchItemsByNameUnderPrice(query, maxPrice, limit)
Init ==
  /\ limit \in Limits
  /\ maxPrice \in MaxPrices
  /\ maxPages \in PageCeilings
  /\ pc = "search"
  /\ CollectorFresh
  /\ username = "undefined"
  /\ password = "undefined"
  /\ urlCount = 0
  /\ cartBefore = 0
  /\ cartItems = 0
  /\ FlowFresh

(* ------------------------ searchItemsByNameUnderPrice ------------------ *)
\* the return statement of collectItemsWithPaging
Return ==
  /\ pc' = "done"
  /\ result' = Slice(collectedUrls, limit)

\* await this.searchByKeyword(query): fill, click and load wait; any of them
\* may raise, and nothing catches it
SearchByKeyword ==
  /\ pc = "search"
  /\ \E ok \in BOOLEAN :
       /\ pc' = IF ok THEN "filter" ELSE "raised"
       /\ raisedIn' = IF ok THEN "none" ELSE "searchByKeyword"
  /\ UNCHANGED <<flowVars, inputVars, filterOutcome, collectedUrls, currentPage, pageItems,
                 pushIdx, hasNext, extractVars, browserPage, result, callCounts,
                 allAccepted, acceptedBefore, advanceFailed>>

\* await this.applyPriceFilter(maxPrice): the price input is absent, fill
\* raises, the submit button is absent, click or the load wait raises, or the
\* filter is submitted
FilterOutcomes == {"absent", "fillRaises", "noSubmit", "submitRaises", "submitted"}

\* faulty variant: the try block ends after the fill
FilterCaughtFillOnly(outcome) == outcome # "submitRaises"
\* the try block of applyPriceFilter encloses every call of its body
FilterCaught(outcome) == outcome \in FilterOutcomes

ApplyPriceFilter ==
  /\ pc = "filter"
  /\ \E outcome \in FilterOutcomes :
       /\ filterOutcome' = outcome
       /\ pc' = IF FilterCaught(outcome) THEN "collect" ELSE "raised"
       /\ raisedIn' = IF FilterCaught(outcome) THEN "none" ELSE "applyPriceFilter"
  /\ UNCHANGED <<flowVars, inputVars, collectedUrls, currentPage, pageItems,
                 pushIdx, hasNext, extractVars, browserPage, result, callCounts,
                 allAccepted, acceptedBefore, advanceFailed>>

(* -------------------------- collectItemsWithPaging --------------------- *)
\* the call of collectItemsWithPaging: collectedUrls = [], currentPage = 1;
\* the finished applyPriceFilter call leaves nothing behind
CollectBegin ==
  /\ pc = "collect"
  /\ pc' = "loop"
  /\ filterOutcome' = "none"
  /\ collectedUrls' = <<>>
  /\ currentPage' = 1
  /\ UNCHANGED <<flowVars, inputVars, raisedIn, pageItems,
                 pushIdx, hasNext, extractVars, browserPage, result, callCounts,
                 allAccepted, acceptedBefore, advanceFailed>>

\* the test of the while loop
WhileTest ==
  /\ pc = "loop"
  /\ IF LoopGuard(collectedUrls, currentPage, limit, maxPages)
       THEN pc' = "extract" /\ UNCHANGED result
       ELSE Return
  /\ UNCHANGED <<flowVars, inputVars, filterOutcome, raisedIn, collectedUrls, currentPage,
                 pageItems, pushIdx, hasNext, extractVars, browserPage, callCounts,
                 allAccepted, acceptedBefore, advanceFailed>>

\* extractItemsFromCurrentPage, before its loop: waitForTimeout or
\* locator.all() raises; nothing on the way to the caller catches it
ExtractRaises ==
  /\ pc = "extract"
  /\ \E read \in PageReads : ~InsideTry(read)
  /\ fetchCount' = fetchCount + 1
  /\ pc' = "raised"
  /\ raisedIn' = "extractItemsFromCurrentPage"
  /\ UNCHANGED <<flowVars, inputVars, filterOutcome, collectedUrls, currentPage, pageItems,
                 pushIdx, hasNext, extractVars, browserPage, result, hasNextCalls,
                 navCalls, allAccepted, acceptedBefore, advanceFailed>>

\* extractItemsFromCurrentPage, before its loop: locator.all() returns the cards
ExtractBegin ==
  /\ pc = "extract"
  /\ fetchCount' = fetchCount + 1
  /\ \E n \in 0 .. MaxCards : cardCount' = n
  /\ acceptedBefore' = Len(allAccepted)
  /\ cardIdx' = 0
  /\ items' = <<>>
  /\ card' = NoCard
  /\ verdict' = "none"
  /\ pc' = "card"
  /\ UNCHANGED <<flowVars, inputVars, filterOutcome, raisedIn, collectedUrls, currentPage,
                 pageItems, pushIdx, hasNext, browserPage, result, hasNextCalls,
                 navCalls, allAccepted, advanceFailed>>

\* a candidate that qualifies: its price text is read and parses into
\* (0, maxPrice], and its link gives a URL
Qualifies(c, ceiling) ==
  /\ c.priceKind = "text"
  /\ c.linkKind = "href"
  /\ 0 < Parse(c.priceText)
  /\ Parse(c.priceText) <= ceiling * PriceScale

\* for (const item of itemElements): the loop moves to the next card
NextCard ==
  /\ pc = "card"
  /\ cardIdx < cardCount
  /\ \E c \in Cards : card' = c
  /\ verdict' = "none"
  /\ pc' = "read"
  /\ UNCHANGED <<flowVars, inputVars, filterOutcome, raisedIn, collectedUrls, currentPage, pageItems, pushIdx,
                 hasNext, items, cardCount, cardIdx, browserPage, result, callCounts,
                 allAccepted, acceptedBefore, advanceFailed>>

\* the body of the for loop of extractItemsFromCurrentPage for the card
HandleCard ==
  /\ pc = "read"
  /\ cardIdx' = cardIdx + 1
  /\ items' = items \o CardItems(card, browserPage, cardIdx + 1, maxPrice)
  /\ allAccepted' =
       IF Qualifies(card, maxPrice)
         THEN Append(allAccepted, UrlOf(browserPage, cardIdx + 1))
         ELSE allAccepted
  /\ verdict' = CardVerdict(card, maxPrice)
  /\ IF FailingRead(card, maxPrice) = "none" \/ InsideTry(FailingRead(card, maxPrice))
       THEN /\ pc' = "card"
            /\ card' = NoCard
            /\ UNCHANGED raisedIn
       ELSE /\ pc' = "raised"
            /\ raisedIn' = "extractItemsFromCurrentPage"
            /\ UNCHANGED card
  /\ UNCHANGED <<flowVars, inputVars, filterOutcome, collectedUrls, currentPage, pageItems, pushIdx, hasNext,
                 cardCount, browserPage, result, callCounts, acceptedBefore,
                 advanceFailed>>

\* return items;  and the assignment to pageItems
ExtractReturn ==
  /\ pc = "card"
  /\ cardIdx = cardCount
  /\ pageItems' = items
  /\ pushIdx' = 1
  /\ items' = <<>>
  /\ verdict' = "none"
  /\ pc' = "push"
  /\ UNCHANGED <<flowVars, inputVars, filterOutcome, raisedIn, collectedUrls, currentPage,
                 hasNext, cardCount, cardIdx, card, browserPage, result, callCounts,
                 allAccepted, acceptedBefore, advanceFailed>>

\* one turn of  for (const item of pageItems)
PushItem ==
  /\ pc = "push"
  /\ IF pushIdx > Len(pageItems) \/ PushBreak(collectedUrls, limit)
       THEN /\ pc' = "check"
            /\ UNCHANGED <<collectedUrls, pushIdx>>
       ELSE /\ collectedUrls' = Push(collectedUrls, pageItems[pushIdx])
            /\ pushIdx' = pushIdx + 1
            /\ UNCHANGED pc
  /\ UNCHANGED <<flowVars, inputVars, filterOutcome, raisedIn, currentPage, pageItems, hasNext,
                 extractVars, browserPage, result, callCounts, allAccepted,
                 acceptedBefore, advanceFailed>>

\* if (collectedUrls.length >= limit) break;   after the for-of loop
CheckTarget ==
  /\ pc = "check"
  /\ IF TargetReached(collectedUrls, limit)
       THEN Return
       ELSE pc' = "hasNext" /\ UNCHANGED result
  /\ UNCHANGED <<flowVars, inputVars, filterOutcome, raisedIn, collectedUrls, currentPage,
                 pageItems, pushIdx, hasNext, extractVars, browserPage, callCounts,
                 allAccepted, acceptedBefore, advanceFailed>>

\* const hasNext = await this.hasNextPage(); if (!hasNext) break;
CallHasNextPage ==
  /\ pc = "hasNext"
  /\ hasNextCalls' = hasNextCalls + 1
  /\ \E state \in NextPageStates :
       /\ hasNext' = HasNextPage(state)
       /\ advanceFailed' = (advanceFailed \/ state = "throws")
  /\ IF hasNext'
       THEN pc' = "goNext" /\ UNCHANGED result
       ELSE Return
  /\ UNCHANGED <<flowVars, inputVars, filterOutcome, raisedIn, collectedUrls, currentPage,
                 pageItems, pushIdx, extractVars, browserPage, fetchCount, navCalls,
                 allAccepted, acceptedBefore>>

\* goToNextPage: the click raises (no navigation), the load wait raises (the
\* browser has moved on), or both succeed; the catch swallows either failure
NavOutcomes == {"clickRaises", "loadRaises", "navigated"}
Navigated(outcome) == outcome # "clickRaises"

\* await this.goToNextPage(); currentPage++;
GoToNextPage ==
  /\ pc = "goNext"
  /\ navCalls' = navCalls + 1
  /\ \E outcome \in NavOutcomes :
       /\ browserPage' = IF Navigated(outcome) THEN browserPage + 1 ELSE browserPage
       /\ advanceFailed' = (advanceFailed \/ outcome # "navigated")
  /\ currentPage' = currentPage + 1
  /\ pc' = "loop"
  /\ UNCHANGED <<flowVars, inputVars, filterOutcome, raisedIn, collectedUrls, pageItems,
                 pushIdx, hasNext, extractVars, result, fetchCount, hasNextCalls,
                 allAccepted, acceptedBefore>>

Next ==
  \/ SearchByKeyword
  \/ ApplyPriceFilter
  \/ CollectBegin
  \/ WhileTest
  \/ ExtractRaises
  \/ ExtractBegin
  \/ NextCard
  \/ HandleCard
  \/ ExtractReturn
  \/ PushItem
  \/ CheckTarget
  \/ CallHasNextPage
  \/ GoToNextPage

Spec == Init /\ [][Next]_vars

\* every awaited browser call returns, so the step after it is taken
FairSpec == Spec /\ WF_vars(Next)

(* ============================ the test flow ============================ *)
(* login, then addItemsToCart(urls), then assertCartTotalNotExceeds, in the *)
(* order the tests call them; the urls are the collector's result, here     *)
(* any list of up to MaxUrls urls.                                          *)

\* a login argument: omitted, the empty string, or a text
CredentialValues == {"undefined", "empty", "text"}
\* !value of JavaScript
Falsy(value) == value \in {"undefined", "empty"}

\* the budgets per item of the test data, in whole currency units
Budgets == {1, 2}
\* what the cart page can show as its total
Totals == 0 .. MaxTotal

\* the options of the size and colour dropdowns: the "Select" entry first
ButtonOptionLists ==
  {<<>>} \cup {<<"placeholder">> \o [j \in 1 .. k |-> "option"] : k \in 0 .. MaxOptions}

\* the options of an msku select: its first entry is a placeholder, with the
\* empty value or with a value of its own
MskuOptionLists ==
  {<<>>} \cup {<<ph>> \o [j \in 1 .. k |-> "option"] :
                 ph \in {"placeholder", "valuedPlaceholder"}, k \in 0 .. MaxOptions}

\* what a size or colour selector meets: the button is hidden, a call raises,
\* or the dropdown opens with its options
ButtonDropdowns ==
  {[state |-> st, options |-> <<>>] : st \in {"hidden", "raises"}}
    \cup {[state |-> "visible", options |-> o] : o \in ButtonOptionLists}

\* what the loop of selectOtherDropdowns meets at one select: an id naming
\* quantity, size or color, a hidden select, a call raising, or a visible one
MskuDropdowns ==
  {[state |-> st, options |-> <<>>] : st \in {"skipped", "hidden", "raises"}}
    \cup {[state |-> "visible", options |-> o] : o \in MskuOptionLists}

\* RandomSelector.getRandomIndex: the values Math.floor(Math.random() * length)
\* takes
GetRandomIndexes(length) == IF length <= 0 THEN {0} ELSE 0 .. length - 1

\* RandomSelector.getRandomElement for the index drawn: null for an empty array
GetRandomElement(array, index) ==
  IF Len(array) = 0 THEN "none" ELSE array[index + 1]

\* allOptions.slice(1)
SliceFirst(allOptions) == SubSeq(allOptions, 2, Len(allOptions))

\* selectSizeVariant / selectColorVariant on the open dropdown: the option
\* clicked, "none" when none is
ButtonChoice(allOptions, index) ==
  IF Len(allOptions) > 1
    THEN GetRandomElement(SliceFirst(allOptions), index)
    ELSE "none"

\* the validOptions of selectOtherDropdowns: the options with a non-empty value
ValidOptions(options) == SelectSeq(options, LAMBDA o : o # "placeholder")

\* selectOtherDropdowns on one visible select: the option selected, "none"
\* when none is
MskuChoice(options, index) ==
  IF Len(ValidOptions(options)) > 1
    THEN GetRandomElement(ValidOptions(options), index)
    ELSE "none"

\* error.message.includes('CAPTCHA') in the catch of addItemsToCart
IsCaptcha(error) == error = "captcha"

\* failureCount === urls.length after the loop of addItemsToCart
AllFailed(failures, count) == failures = count

Abs(n) == IF n < 0 THEN -n ELSE n

\* faulty variant: one item of difference is tolerated for every count
ToleranceAlwaysOne(count) == 1
\* const tolerance = itemsCount <= 2 ? 0 : 1
Tolerance(count) == IF count <= 2 THEN 0 ELSE 1

\* faulty variant: the threshold is not compared
WithinBudgetAlways(total, threshold) == TRUE
\* expect(totalAmount).toBeLessThanOrEqual(threshold)
WithinBudget(total, threshold) == total <= threshold

\* faulty variant: the checks for an empty cart and for a total of 0 are
\* left out
AssertVerdictNoZeroChecks(total, count, budget, expected) ==
  IF expected = 0
    THEN IF count = 0 /\ total = 0 THEN "none" ELSE "expectEmptyCart"
  ELSE IF count # expected /\ Abs(count - expected) > Tolerance(expected)
    THEN "countMismatch"
  ELSE IF ~WithinBudget(total, budget * expected) THEN "overBudget"
  ELSE "none"

\* the checks of assertCartTotalNotExceeds after the screenshot, in code
\* order: the check that raises, "none" when the assertion passes
AssertVerdict(total, count, budget, expected) ==
  IF expected = 0
    THEN IF count = 0 /\ total = 0 THEN "none" ELSE "expectEmptyCart"
  ELSE IF count = 0 THEN "cartEmpty"
  ELSE IF total = 0 /\ count > 0 THEN "totalUnreadable"
  ELSE IF count # expected /\ Abs(count - expected) > Tolerance(expected)
    THEN "countMismatch"
  ELSE IF ~WithinBudget(total, budget * expected) THEN "overBudget"
  ELSE "none"

\* a test run: login(username, password) is about to be called; the cart
\* holds cartBefore items of earlier runs
FlowInit ==
  /\ limit = 0
  /\ maxPrice = 0
  /\ maxPages = 0
  /\ pc = "login"
  /\ CollectorFresh
  /\ username \in CredentialValues
  /\ password \in CredentialValues
  /\ urlCount \in 0 .. MaxUrls
  /\ cartBefore \in 0 .. MaxPreExisting
  /\ cartItems = cartBefore
  /\ FlowFresh

(* -------------------------------- login -------------------------------- *)
\* LoginPage.login: without both credentials goto the home page and wait for
\* the load (either call may raise); with both, nothing is done
Login ==
  /\ pc = "login"
  /\ IF Falsy(username) \/ Falsy(password)
       THEN \E ok \in BOOLEAN :
              /\ pc' = IF ok THEN "addItems" ELSE "raised"
              /\ raisedIn' = IF ok THEN "none" ELSE "login"
              /\ browserAt' = IF ok THEN "home" ELSE browserAt
       ELSE /\ pc' = "addItems"
            /\ UNCHANGED <<raisedIn, browserAt>>
  /\ UNCHANGED <<collectorVars, loginVars, urlCount, loopVars, cartBefore,
                 cartItems, variantVars, cartVars>>

(* ---------------------------- addItemsToCart --------------------------- *)
\* the call addItemsToCart(urls): successCount = 0, failureCount = 0, i = 0;
\* the arguments of the finished login call are gone
AddItemsBegin ==
  /\ pc = "addItems"
  /\ pc' = "forTest"
  /\ username' = "undefined"
  /\ password' = "undefined"
  /\ itemIdx' = 0
  /\ successCount' = 0
  /\ failureCount' = 0
  /\ UNCHANGED <<collectorVars, raisedIn, browserAt, urlCount, itemError,
                 attempted, shots, cartBefore, cartItems, variantVars, cartVars>>

\* the test i < urls.length of the for loop and, when it fails, the check
\* after the loop
ForTest ==
  /\ pc = "forTest"
  /\ IF itemIdx < urlCount
       THEN pc' = "goto" /\ UNCHANGED raisedIn
       ELSE IF AllFailed(failureCount, urlCount)
         THEN pc' = "raised" /\ raisedIn' = "addItemsToCart"
         ELSE pc' = "openCart" /\ UNCHANGED raisedIn
  /\ UNCHANGED <<collectorVars, flowVars>>

\* goto(url), the wait, checkForCaptcha and getProductPrice (which raises
\* nothing): goto or the wait raises, a CAPTCHA is seen, or the item page is
\* open
ItemOutcomes == {"gotoRaises", "captcha", "opened"}

OpenItem ==
  /\ pc = "goto"
  /\ attempted' = Append(attempted, itemIdx + 1)
  /\ shots' = <<>>
  /\ \E outcome \in ItemOutcomes :
       /\ pc' = IF outcome = "opened" THEN "variants" ELSE "catch"
       /\ itemError' = CASE outcome = "gotoRaises" -> "goto"
                         [] outcome = "captcha" -> "captcha"
                         [] OTHER -> "none"
       /\ browserAt' = IF outcome = "gotoRaises" THEN browserAt ELSE "item"
  /\ UNCHANGED <<collectorVars, raisedIn, loginVars, urlCount, itemIdx,
                 successCount, failureCount, cartBefore, cartItems,
                 variantVars, cartVars>>

(* ------------------------- selectRandomVariants ------------------------ *)
\* the checkForCaptcha call that opens selectRandomVariants; its CAPTCHA error
\* reaches the catch of addItemsToCart
VariantsCaptchaCheck ==
  /\ pc = "variants"
  /\ \E captcha \in BOOLEAN :
       /\ pc' = IF captcha THEN "catch" ELSE "size"
       /\ itemError' = IF captcha THEN "captcha" ELSE "none"
  /\ UNCHANGED <<collectorVars, raisedIn, loginVars, browserAt, urlCount,
                 itemIdx, successCount, failureCount, attempted, shots, cartBefore,
                 cartItems, variantVars, cartVars>>

\* selectSizeVariant: everything it does is inside its try block
SelectSizeVariant ==
  /\ pc = "size"
  /\ pc' = "color"
  /\ \E d \in ButtonDropdowns :
       \E index \in GetRandomIndexes(Len(SliceFirst(d.options))) :
         /\ dropdown' = d
         /\ selection' = IF d.state = "visible"
                           THEN ButtonChoice(d.options, index) ELSE "none"
  /\ UNCHANGED <<collectorVars, raisedIn, loginVars, browserAt, urlCount,
                 loopVars, cartBefore, cartItems, selectsSeen, cartVars>>

\* selectColorVariant: the same steps on the colour dropdown
SelectColorVariant ==
  /\ pc = "color"
  /\ pc' = "other"
  /\ selectsSeen' = 0
  /\ \E d \in ButtonDropdowns :
       \E index \in GetRandomIndexes(Len(SliceFirst(d.options))) :
         /\ dropdown' = d
         /\ selection' = IF d.state = "visible"
                           THEN ButtonChoice(d.options, index) ELSE "none"
  /\ UNCHANGED <<collectorVars, raisedIn, loginVars, browserAt, urlCount,
                 loopVars, cartBefore, cartItems, cartVars>>

\* one pass of the loop of selectOtherDropdowns over allSelects; a call that
\* raises ends the loop, the catch being outside it
SelectOtherDropdown ==
  /\ pc = "other"
  /\ selectsSeen < MaxSelects
  /\ selectsSeen' = selectsSeen + 1
  /\ \E d \in MskuDropdowns :
       \E index \in GetRandomIndexes(Len(ValidOptions(d.options))) :
         /\ dropdown' = d
         /\ selection' = IF d.state = "visible"
                           THEN MskuChoice(d.options, index) ELSE "none"
         /\ pc' = IF d.state = "raises" THEN "quantity" ELSE "other"
  /\ UNCHANGED <<collectorVars, raisedIn, loginVars, browserAt, urlCount,
                 loopVars, cartBefore, cartItems, cartVars>>

\* the loop of selectOtherDropdowns is over: no select is left, or
\* locator.all() raised
OtherDropdownsDone ==
  /\ pc = "other"
  /\ pc' = "quantity"
  /\ UNCHANGED <<collectorVars, raisedIn, flowVars>>

\* selectQuantity, which catches what it raises, and the closing
\* waitForTimeout of selectRandomVariants, which nothing in it catches
SelectQuantity ==
  /\ pc = "quantity"
  /\ dropdown' = NoDropdown
  /\ selection' = "none"
  /\ selectsSeen' = 0
  /\ \E ok \in BOOLEAN :
       /\ pc' = IF ok THEN "addToCart" ELSE "catch"
       /\ itemError' = IF ok THEN "none" ELSE "variants"
  /\ UNCHANGED <<collectorVars, raisedIn, loginVars, browserAt, urlCount,
                 itemIdx, successCount, failureCount, attempted, shots, cartBefore,
                 cartItems, cartVars>>

(* ------------------------ addToCart and the catch ---------------------- *)
\* addToCart: waitFor or click raises, the click lands and a later wait
\* raises, or all calls return; its catch rethrows
AddOutcomes == {"raises", "clickedThenRaises", "added"}

AddToCart ==
  /\ pc = "addToCart"
  /\ \E outcome \in AddOutcomes :
       /\ cartItems' = IF outcome = "raises" THEN cartItems ELSE cartItems + 1
       /\ pc' = IF outcome = "added" THEN "shot" ELSE "catch"
       /\ itemError' = IF outcome = "added" THEN "none" ELSE "addToCart"
  /\ UNCHANGED <<collectorVars, raisedIn, loginVars, browserAt, urlCount,
                 itemIdx, successCount, failureCount, attempted, shots, cartBefore,
                 variantVars, cartVars>>

\* a request of takeScreenshot(`item_${i + 1}_${kind}`) and whether the
\* screenshot was taken
Shot(kind, item, taken) == [name |-> kind, item |-> item, taken |-> taken]

\* faulty variant: successCount++ ahead of the screenshot
AddedCountBeforeShot(count, shotTaken) == count + 1
\* successCount++ follows the awaited screenshot, so it runs only when the
\* screenshot was taken
AddedCount(count, shotTaken) == IF shotTaken THEN count + 1 ELSE count

\* takeScreenshot(`item_${i + 1}_added`), successCount++ and i++
TakeAddedScreenshot ==
  /\ pc = "shot"
  /\ \E ok \in BOOLEAN :
       /\ shots' = Append(shots, Shot("added", itemIdx + 1, ok))
       /\ successCount' = AddedCount(successCount, ok)
       /\ IF ok
            THEN /\ pc' = "forTest"
                 /\ itemIdx' = itemIdx + 1
                 /\ UNCHANGED itemError
            ELSE /\ pc' = "catch"
                 /\ itemError' = "screenshot"
                 /\ UNCHANGED itemIdx
  /\ UNCHANGED <<collectorVars, raisedIn, loginVars, browserAt, urlCount,
                 failureCount, attempted, cartBefore, cartItems, variantVars,
                 cartVars>>

\* the catch block of the loop: failureCount++, the error screenshot (which
\* may raise, with nothing around it), the rethrow of a CAPTCHA error,
\* otherwise i++
CatchItem ==
  /\ pc = "catch"
  /\ failureCount' = failureCount + 1
  /\ \E shotOk \in BOOLEAN :
       /\ shots' = Append(shots, Shot("error", itemIdx + 1, shotOk))
       /\ IF ~shotOk
            THEN /\ pc' = "raised"
                 /\ raisedIn' = "errorScreenshot"
                 /\ UNCHANGED <<itemIdx, itemError>>
          ELSE IF IsCaptcha(itemError)
            THEN /\ pc' = "raised"
                 /\ raisedIn' = "checkForCaptcha"
                 /\ UNCHANGED <<itemIdx, itemError>>
          ELSE /\ pc' = "forTest"
               /\ itemIdx' = itemIdx + 1
               /\ itemError' = "none"
               /\ UNCHANGED raisedIn
  /\ UNCHANGED <<collectorVars, loginVars, browserAt, urlCount, successCount,
                 attempted, cartBefore, cartItems, variantVars, cartVars>>

(* ---------------------- assertCartTotalNotExceeds ---------------------- *)
\* the call assertCartTotalNotExceeds(budgetPerItem, urls.length) and its
\* openCart: the icon click, or the goto of the fallback, shows the cart, or
\* the fallback raises
OpenCart ==
  /\ pc = "openCart"
  /\ itemsCount' = urlCount
  /\ \E budget \in Budgets : budgetPerItem' = budget
  /\ \E ok \in BOOLEAN :
       /\ pc' = IF ok THEN "total" ELSE "raised"
       /\ raisedIn' = IF ok THEN "none" ELSE "openCart"
       /\ browserAt' = IF ok THEN "cart" ELSE browserAt
  /\ UNCHANGED <<collectorVars, loginVars, urlCount, loopVars, cartBefore,
                 cartItems, variantVars, totalAmount, cartItemsCount, totalVars>>

(* ----------------------------- getTotalAmount -------------------------- *)
\* the entries of totalSelectors, in their order
TotalSelectors ==
  <<"SUBTOTAL .text-display-24", ".cart-summary-amount",
    ".total-row .text-display-24", ".subtotal .text-display",
    "Subtotal + span">>

\* what consulting one selector gives: isVisible or textContent raises, the
\* element is hidden, it has no text, or its text parses to a total (0 for a
\* text without a number)
SelectorReads ==
  {[kind |-> k, value |-> 0] : k \in {"throws", "hidden", "noText"}}
    \cup {[kind |-> "text", value |-> v] : v \in Totals}

\* faulty variant: a total of 0 is returned as well
FoundTotalZeroOk(read) == read.kind = "text"
\* the selector is visible, has a text, and total > 0
FoundTotal(read) == read.kind = "text" /\ read.value > 0

\* the price of one item row, in whole currency units (0 for a text without
\* a number)
RowPrices == {0, 1, 2}
\* what allTextContents of the item price rows parses to
ItemPriceLists == UNION {[1 .. n -> RowPrices] : n \in 0 .. MaxRows}

\* let total = 0; for (const priceText of itemPrices) total += parse(priceText)
RECURSIVE SumPrices(_)
SumPrices(prices) ==
  IF prices = <<>> THEN 0 ELSE prices[1] + SumPrices(Tail(prices))

\* the waitForTimeout that opens getTotalAmount: when it raises, the outer
\* catch returns 0
GetTotalBegin ==
  /\ pc = "total"
  /\ selIdx' = 0
  /\ selectorRead' = NoRead
  /\ itemPrices' = <<>>
  /\ \E ok \in BOOLEAN :
       IF ok
         THEN /\ pc' = "selector"
              /\ totalSource' = "none"
              /\ UNCHANGED totalAmount
         ELSE /\ pc' = "readCart"
              /\ totalSource' = "error"
              /\ totalAmount' = 0
  /\ UNCHANGED <<collectorVars, raisedIn, loginVars, browserAt, urlCount,
                 loopVars, cartBefore, cartItems, variantVars, budgetPerItem,
                 itemsCount, cartItemsCount>>

\* one turn of the loop over totalSelectors: a total > 0 is returned, anything
\* else (a raise included, caught inside the loop) moves on to the next
TrySelector ==
  /\ pc = "selector"
  /\ selIdx < Len(TotalSelectors)
  /\ selIdx' = selIdx + 1
  /\ \E read \in SelectorReads :
       /\ selectorRead' = read
       /\ IF FoundTotal(read)
            THEN /\ pc' = "readCart"
                 /\ totalAmount' = read.value
                 /\ totalSource' = "selector"
            ELSE UNCHANGED <<pc, totalAmount, totalSource>>
  /\ UNCHANGED <<collectorVars, raisedIn, loginVars, browserAt, urlCount,
                 loopVars, cartBefore, cartItems, variantVars, budgetPerItem,
                 itemsCount, cartItemsCount, itemPrices>>

\* calculateTotalFromItems, after the loop: the sum of the parsed item
\* prices, 0 when allTextContents raises
CalculateTotalFromItems ==
  /\ pc = "selector"
  /\ selIdx = Len(TotalSelectors)
  /\ pc' = "readCart"
  /\ \/ /\ itemPrices' \in ItemPriceLists
        /\ totalAmount' = SumPrices(itemPrices')
        /\ totalSource' = "items"
     \/ /\ itemPrices' = <<>>
        /\ totalAmount' = 0
        /\ totalSource' = "error"
  /\ UNCHANGED <<collectorVars, raisedIn, loginVars, browserAt, urlCount,
                 loopVars, cartBefore, cartItems, variantVars, budgetPerItem,
                 itemsCount, cartItemsCount, selIdx, selectorRead>>

\* getItemsCount (the count shown, 0 when reading it raises) and
\* takeScreenshot('cart_final'); the locals of the finished getTotalAmount
\* call are gone
ReadCart ==
  /\ pc = "readCart"
  /\ selIdx' = 0
  /\ selectorRead' = NoRead
  /\ itemPrices' = <<>>
  /\ \E countRead \in BOOLEAN :
       cartItemsCount' = IF countRead THEN cartItems ELSE 0
  /\ \E shotOk \in BOOLEAN :
       /\ pc' = IF shotOk THEN "validate" ELSE "raised"
       /\ raisedIn' = IF shotOk THEN "none" ELSE "cartScreenshot"
  /\ UNCHANGED <<collectorVars, loginVars, browserAt, urlCount, loopVars,
                 cartBefore, cartItems, variantVars, budgetPerItem, itemsCount,
                 totalAmount, totalSource>>

\* the checks after the screenshot
Validate ==
  /\ pc = "validate"
  /\ raisedIn' = AssertVerdict(totalAmount, cartItemsCount, budgetPerItem,
                               itemsCount)
  /\ pc' = IF raisedIn' = "none" THEN "passed" ELSE "raised"
  /\ UNCHANGED <<collectorVars, flowVars>>

FlowNext ==
  \/ Login
  \/ AddItemsBegin
  \/ ForTest
  \/ OpenItem
  \/ VariantsCaptchaCheck
  \/ SelectSizeVariant
  \/ SelectColorVariant
  \/ SelectOtherDropdown
  \/ OtherDropdownsDone
  \/ SelectQuantity
  \/ AddToCart
  \/ TakeAddedScreenshot
  \/ CatchItem
  \/ OpenCart
  \/ GetTotalBegin
  \/ TrySelector
  \/ CalculateTotalFromItems
  \/ ReadCart
  \/ Validate

FlowSpec == FlowInit /\ [][FlowNext]_vars

(* ------------------------------- claims -------------------------------- *)
Range(s) == {s[i] : i \in DOMAIN s}

IsPrefix(s, t) == Len(s) <= Len(t) /\ s = SubSeq(t, 1, Len(s))

\* the parsed price of a card, 0 when its text is missing or cannot be read
ParsedPrice(c) == IF c.priceKind = "text" THEN Parse(c.priceText) ELSE 0

\* C1: for limit >= 0 the accumulator never holds more than limit identifiers,
\* in any state of the loop, and neither does the returned list.
C1_ResultWithinLimit ==
  limit >= 0 => Len(collectedUrls) <= limit /\ Len(result) <= limit

\* C1 witness: a run returned exactly limit identifiers although the pages it
\* fetched listed more qualifying candidates than that.
C1_Witness ==
  /\ pc = "done"
  /\ limit >= 1
  /\ Len(result) = limit
  /\ Len(allAccepted) > limit

\* C2: every identifier held by the extractor, the accumulator or the result
\* comes from a candidate seen with 0 < parsed price <= maxPrice, and a card
\* whose parsed price is 0 (missing or unparseable text included) or above
\* maxPrice is not appended.
C2_OnlyPricesInBudget ==
  /\ [](Range(items) \cup Range(pageItems) \cup Range(collectedUrls) \cup Range(result)
          \subseteq Range(allAccepted))
  /\ [][(pc = "read"
          /\ ~(0 < ParsedPrice(card) /\ ParsedPrice(card) <= maxPrice * PriceScale))
         => items' = items]_vars

\* C2 witness: after a candidate was accepted, a card whose price text was
\* read and failed the price test was handled and left out.
C2_Witness ==
  /\ pc = "card"
  /\ verdict = "outOfBudget"
  /\ items # <<>>
  /\ UrlOf(browserPage, cardIdx) \notin Range(items)

\* C3: the returned list is the first min(limit, N) of the qualifying
\* identifiers of the fetched pages, in fetch order and in-page order, and the
\* accumulator is at every moment a prefix of that concatenation.
C3_PrefixOfAccepted ==
  /\ IsPrefix(collectedUrls, allAccepted)
  /\ pc = "done" => result = SubSeq(allAccepted, 1, Min(limit, Len(allAccepted)))

\* C3 witness: a result that spans two result pages and leaves out a later
\* qualifying candidate of the second page.
C3_Witness ==
  /\ pc = "done"
  /\ Len(result) = 2
  /\ result[1][1] # result[2][1]
  /\ Len(allAccepted) > 2

\* C4: a run never calls extractItemsFromCurrentPage more than maxPages times.
C4_FetchesWithinCeiling == fetchCount <= maxPages

\* C4 witness: a run that ended short of its target after maxPages fetches,
\* with a next page reported available after the last one.
C4_Witness ==
  /\ pc = "done"
  /\ maxPages >= 2
  /\ fetchCount = maxPages
  /\ hasNext
  /\ Len(result) < limit

\* C5 (as stated): once advancing failed (hasNextPage raised inside, or
\* goToNextPage did not navigate), the run has returned, with the page counter
\* still at the number of pages fetched.
C5_AdvanceFailureStops ==
  advanceFailed => pc = "done" /\ currentPage = fetchCount

\* C6 (as stated): a failing fetch counts as zero candidates for its page and
\* no exception of a page fetch reaches the caller.
C6_FetchFailureIsEmptyPage ==
  /\ raisedIn # "extractItemsFromCurrentPage"
  /\ verdict = "caught" => items = <<>>

\* C6 (amended): a read of one candidate that raises skips that candidate
\* only, the qualifying candidates of the page before and after it are kept,
\* and an exception leaves a page fetch only from the steps before its loop.
C6_CardFailureSkipsCard ==
  /\ (pc = "raised" /\ raisedIn = "extractItemsFromCurrentPage") => card = NoCard
  /\ pc \in {"card", "read"} =>
       items = SubSeq(allAccepted, acceptedBefore + 1, Len(allAccepted))
  /\ verdict = "caught" =>
       pc = "card" /\ UrlOf(browserPage, cardIdx) \notin Range(items)

\* C6 witness: a read of the second card of a page raised and was caught,
\* and the first card of the page is still among the items.
C6_Witness ==
  /\ pc = "card"
  /\ cardIdx = 2
  /\ verdict = "caught"
  /\ items = <<UrlOf(browserPage, 1)>>

\* C7 (as stated): a request with limit <= 0 or maxPages < 1 never ends in an
\* ordinary returned result.
C7_BadRequestRejected ==
  (limit <= 0 \/ maxPages < 1) => pc # "done"

\* C7 (amended): a request with limit <= 0 or maxPages < 1 is not rejected;
\* no page is fetched for it, next-page is never consulted, the only exception
\* it can end in is the keyword search's, and what it returns is the empty list.
C7_BadRequestReturnsEmpty ==
  (limit <= 0 \/ maxPages < 1) =>
    /\ fetchCount = 0 /\ hasNextCalls = 0 /\ navCalls = 0
    /\ raisedIn \in {"none", "searchByKeyword"}
    /\ pc = "done" => result = <<>>

\* C7 witness: a run with limit <= 0 under a usable page ceiling returned.
C7_Witness ==
  /\ pc = "done"
  /\ limit <= 0
  /\ maxPages >= 1
  /\ result = <<>>

\* C8: while the accumulator holds limit identifiers no page is fetched, no
\* next page is asked for and none is navigated to, and the check after the
\* page returns at once.
C8_StopsAtTarget ==
  [][/\ Len(collectedUrls) >= limit => UNCHANGED callCounts
     /\ (pc = "check" /\ Len(collectedUrls) >= limit) => pc' = "done"]_vars

\* C8 witness: the target was met on the first page of a run that could have
\* paged on, and the run returned without asking for a next page.
C8_Witness ==
  /\ pc = "done"
  /\ limit >= 1
  /\ Len(result) = limit
  /\ fetchCount = 1
  /\ maxPages >= 2
  /\ hasNextCalls = 0

\* C9 (as stated): next-page is not consulted once the page counter has
\* reached maxPages, so a run navigates at most maxPages - 1 times.
C9_NoAdvanceAtCeiling ==
  /\ pc \in {"hasNext", "goNext"} => currentPage < maxPages
  /\ maxPages >= 1 => navCalls <= maxPages - 1

\* C9 (amended): at the ceiling the collector fetches no further page, yet it
\* still consults hasNextPage and navigates once more when a next page is
\* reported: navigations and next-page checks are bounded by the fetches, and
\* so by maxPages, and past the ceiling no step of a page fetch or of advancing runs.
C9_AdvancesBoundedByFetches ==
  /\ navCalls <= hasNextCalls
  /\ hasNextCalls <= fetchCount
  /\ navCalls <= maxPages
  /\ currentPage > maxPages =>
       pc \notin {"extract", "card", "push", "check", "hasNext", "goNext"}

\* C9 witness: a run that navigated maxPages times.
C9_Witness ==
  /\ pc = "done"
  /\ maxPages >= 1
  /\ navCalls = maxPages
  /\ fetchCount = maxPages

\* C10: after a page without accepted candidates, with the target not met, the
\* run asks for the next page; when one is reported it navigates, counts the
\* page, and below the ceiling fetches again.
C10_EmptyPageContinues ==
  [][/\ (pc = "check" /\ pageItems = <<>> /\ Len(collectedUrls) < limit)
          => pc' = "hasNext"
     /\ (pc = "hasNext" /\ pageItems = <<>> /\ hasNext') => pc' = "goNext"
     /\ pc = "goNext" =>
          pc' = "loop" /\ currentPage' = currentPage + 1 /\ navCalls' = navCalls + 1
     /\ (pc = "loop" /\ pageItems = <<>> /\ Len(collectedUrls) < limit
           /\ currentPage <= maxPages) => pc' = "extract"]_vars

\* C10 witness: the second page is being fetched after a first page that
\* yielded nothing.
C10_Witness ==
  /\ pc = "card"
  /\ fetchCount = 2
  /\ browserPage = 2
  /\ allAccepted = <<>>
  /\ collectedUrls = <<>>

\* C11: every collection run ends, by returning or by raising, within a
\* bounded number of steps; when it returns, the result has as many items
\* as were asked for (none for a negative limit), or maxPages pages were
\* fetched, or the last hasNextPage call reported no next page
C11_TerminalCondition ==
  pc = "done" =>
    \/ Len(result) = Max(limit, 0)
    \/ fetchCount = maxPages
    \/ hasNextCalls > 0 /\ ~hasNext

\* an upper bound of the steps one turn of the while loop takes
StepsPerPage == 7 + 3 * MaxCards

\* an upper bound of the steps the run has left: the turns of the while loop
\* the page counter allows, and the steps left in the running turn
StepsLeft ==
  LET pagesLeft == Max(maxPages + 1 - currentPage, 0)
      inTurn ==
        CASE pc = "search" -> StepsPerPage + 3
          [] pc = "filter" -> StepsPerPage + 2
          [] pc = "collect" -> StepsPerPage + 1
          [] pc = "loop" -> StepsPerPage
          [] pc = "extract" -> StepsPerPage - 1
          [] pc = "card" -> 5 + Len(items) + 3 * (cardCount - cardIdx)
          [] pc = "read" -> 4 + Len(items) + 3 * (cardCount - cardIdx)
          [] pc = "push" -> 5 + Len(pageItems) - pushIdx
          [] pc = "check" -> 3
          [] pc = "hasNext" -> 2
          [] pc = "goNext" -> 1
          [] OTHER -> 0
  IN  IF pc \in {"done", "raised"} THEN 0 ELSE pagesLeft * StepsPerPage + inTurn

\* the run has ended, or the guard of a step holds: only the two steps at
\* "card" have a guard besides the position
C11_NotStuck ==
  \/ pc \in {"done", "raised"}
  \/ pc \in {"search", "filter", "collect", "loop", "extract", "read", "push",
              "check", "hasNext", "goNext"}
  \/ pc = "card" /\ (cardIdx < cardCount \/ cardIdx = cardCount)

\* no run is stuck before its end, every step lowers the bound StepsLeft,
\* which is never negative, and a run that returned meets a terminal condition
C11_Terminates ==
  /\ []C11_NotStuck
  /\ [](StepsLeft >= 0)
  /\ [][StepsLeft' < StepsLeft]_vars
  /\ []C11_TerminalCondition

\* a run that returned short of the limit and of the ceiling, after
\* hasNextPage reported no next page
C11_Witness ==
  /\ pc = "done"
  /\ Len(result) < limit
  /\ fetchCount >= 1
  /\ fetchCount < maxPages
  /\ hasNextCalls > 0
  /\ ~hasNext

\* C12: searchItemsByNameUnderPrice runs the keyword search, then the price
\* filter, then the collection; whatever the filter does (control absent, a
\* call of it raising), it raises nothing and the collection starts
C12_SearchFilterCollect ==
  [][/\ pc = "search" => pc' \in {"filter", "raised"}
     /\ pc = "filter" => pc' = "collect" /\ raisedIn' = "none"
     /\ pc = "collect" => pc' = "loop" /\ fetchCount = 0
     /\ pc' = "extract" => pc = "loop"]_vars

C12_FilterBestEffort ==
  /\ [](raisedIn # "applyPriceFilter")
  /\ C12_SearchFilterCollect

\* the filter failed after the fill and the collection is about to start
C12_Witness ==
  /\ pc = "collect"
  /\ filterOutcome \in {"absent", "fillRaises", "submitRaises"}
  /\ raisedIn = "none"

\* the budget threshold of the running assertion
Threshold == budgetPerItem * itemsCount

\* C13: assertCartTotalNotExceeds returns normally for itemsCount > 0 only
\* with a total of at most budgetPerItem * itemsCount; with a total above it,
\* the checks after the screenshot raise
C13_ReturnWithinBudget ==
  (pc = "passed" /\ itemsCount > 0) => totalAmount <= Threshold

C13_TotalWithinBudget ==
  /\ []C13_ReturnWithinBudget
  /\ [][(pc = "validate" /\ itemsCount > 0 /\ totalAmount > Threshold)
          => pc' = "raised"]_vars

\* the assertion passed with the total exactly at the threshold
C13_Witness ==
  /\ pc = "passed"
  /\ itemsCount > 0
  /\ totalAmount = Threshold

\* C14: when addItemsToCart ends by raising and the error it caught last is
\* no CAPTCHA error, goto has been called with every url
C14_LaterUrlsAttempted ==
  (/\ pc = "raised"
   /\ raisedIn \in {"addItemsToCart", "errorScreenshot", "checkForCaptcha"}
   /\ ~IsCaptcha(itemError))
    => Len(attempted) = urlCount

\* C15: when login has returned, the browser shows the loaded home page
C15_LoginLoadsHome == pc = "addItems" => browserAt = "home"

\* C16: with the cart holding the itemsCount added items on top of those of
\* earlier runs, the count read correctly and the total within the budget,
\* the assertion does not raise the item count error
C16_PreExistingItemsAccepted ==
  (/\ pc = "raised"
   /\ itemsCount > 0
   /\ cartItems = cartBefore + itemsCount
   /\ cartItemsCount = cartItems
   /\ totalAmount <= Threshold)
    => raisedIn # "countMismatch"

\* C17: a visible dropdown that offers an option besides its placeholder gets
\* one of these options selected
C17_VisibleDropdownGetsOption ==
  (/\ dropdown.state = "visible"
   /\ \E j \in DOMAIN dropdown.options : dropdown.options[j] = "option")
    => selection = "option"

\* C18: once the catch block has handled a CAPTCHA error for item i, the run
\* has ended with that CAPTCHA error and no url after item i was navigated to
C18_CaptchaErrorPropagates ==
  (IsCaptcha(itemError) /\ pc # "catch")
    => /\ pc = "raised"
       /\ raisedIn = "checkForCaptcha"
       /\ Len(attempted) = itemIdx + 1

\* C19: when addItemsToCart has ended without a CAPTCHA, it raised 'failed to
\* add any items' exactly when there was a url and every url failed, it
\* returned normally otherwise, and successCount + failureCount is the number
\* of urls
C19_RaisesIffAllFailed ==
  LET returned == pc = "openCart"
      raised == /\ pc = "raised"
                /\ raisedIn \in {"addItemsToCart", "errorScreenshot"}
      everyUrlFailed == urlCount >= 1 /\ failureCount = urlCount
  IN  ((returned \/ raised) /\ ~IsCaptcha(itemError))
        => /\ (pc = "raised" /\ raisedIn = "addItemsToCart") <=> everyUrlFailed
           /\ ~everyUrlFailed => returned
           /\ successCount + failureCount = urlCount

C21_FirstPositiveSelector ==
  /\ [](pc = "readCart" =>
          /\ totalSource = "selector" =>
                /\ selIdx \in 1 .. Len(TotalSelectors)
                /\ selectorRead.kind = "text"
                /\ selectorRead.value > 0
                /\ totalAmount = selectorRead.value
          /\ totalSource = "items" =>
                /\ selIdx = Len(TotalSelectors)
                /\ ~(selectorRead.kind = "text" /\ selectorRead.value > 0)
                /\ totalAmount = SumPrices(itemPrices)
          /\ totalSource = "error" => totalAmount = 0)
  /\ [][/\ selIdx' > selIdx =>
             /\ selIdx' = selIdx + 1
             /\ selIdx > 0 => ~(selectorRead.kind = "text" /\ selectorRead.value > 0)
        /\ pc \in {"total", "selector"} =>
             /\ pc' \in {"selector", "readCart"}
             /\ raisedIn' = raisedIn]_vars

\* the third selector gave the total after two that gave none
C21_Witness ==
  /\ pc = "readCart"
  /\ totalSource = "selector"
  /\ selIdx = 3
  /\ totalAmount > 0

\* C22 as stated: for the url of an iteration that ended without an uncaught
\* error exactly one screenshot was requested
C22_OneScreenshotRequested ==
  (pc = "forTest" /\ itemIdx > 0) => Len(shots) = 1

\* C22: for the url of an iteration that ended without an uncaught error
\* exactly one screenshot was taken, 'added' or 'error', the 'error' one
\* possibly after a failed request of the 'added' one; successCount grows
\* only with a taken 'added' screenshot, which is requested only after the
\* add-to-cart click landed
C22_OneScreenshotTaken ==
  /\ []((pc = "forTest" /\ itemIdx > 0) =>
          shots \in {<<Shot("added", itemIdx, TRUE)>>,
                     <<Shot("error", itemIdx, TRUE)>>,
                     <<Shot("added", itemIdx, FALSE), Shot("error", itemIdx, TRUE)>>})
  /\ [][/\ successCount' # successCount =>
             /\ successCount' = successCount + 1
             /\ pc = "shot"
             /\ shots' = <<Shot("added", itemIdx + 1, TRUE)>>
        /\ pc' = "shot" => (pc = "addToCart" /\ cartItems' = cartItems + 1)]_vars

\* an iteration ended after the 'added' screenshot failed and the 'error'
\* screenshot was taken
C22_Witness ==
  /\ pc = "forTest"
  /\ itemIdx > 0
  /\ Len(shots) = 2

\* C23: for itemsCount > 0 assertCartTotalNotExceeds returns normally only
\* with a total and a cart count above 0; with either at 0 its checks raise
C23_UnreadableNeverPasses ==
  /\ []((pc = "passed" /\ itemsCount > 0) =>
          (totalAmount > 0 /\ cartItemsCount > 0))
  /\ [][(/\ pc = "validate"
          /\ itemsCount > 0
          /\ (totalAmount = 0 \/ cartItemsCount = 0))
          => /\ pc' = "raised"
             /\ raisedIn' \in {"cartEmpty", "totalUnreadable"}]_vars

\* getTotalAmount returned 0 on an error and the assertion raised for it
C23_Witness ==
  /\ pc = "raised"
  /\ raisedIn = "totalUnreadable"
  /\ totalSource = "error"
  /\ itemsCount > 0

\* C24: at the test of the while loop the page counter is the page the
\* browser shows, and the returned list holds no url twice
C24_NoPageTwice ==
  /\ pc = "loop" => currentPage = browserPage
  /\ \A i, j \in DOMAIN result : i # j => result[i] # result[j]

\* C25: while and after assertCartTotalNotExceeds runs, the itemsCount it was
\* given is the number of items addItemsToCart put into the cart; with an
\* empty cart before the run and the cart count read correctly, the item
\* count error is not raised
C25_HandedCountIsAddedCount ==
  LET asserting ==
        \/ pc \in {"total", "selector", "readCart", "validate", "passed"}
        \/ /\ pc = "raised"
           /\ raisedIn \in {"openCart", "cartScreenshot", "expectEmptyCart",
                             "cartEmpty", "totalUnreadable", "countMismatch",
                             "overBudget"}
  IN  asserting =>
        /\ itemsCount = cartItems - cartBefore
        /\ (cartBefore = 0 /\ cartItemsCount = cartItems) => raisedIn # "countMismatch"
====
